---- MODULE Spec2Model ----
(***************************************************************************)
(* humed: the hume daemon (src/humed.py).  The listener loop Humed.run     *)
(* receives request bodies on a REP socket, replies, validates and         *)
(* persists packets in the sqlite table `transfers`, and wakes the worker  *)
(* thread Humed.worker_process_transfers, which rescans the pending rows   *)
(* and hands each to the active transfer method.                           *)
(***************************************************************************)
EXTENDS Integers, Sequences, FiniteSets, TLC

(***************************************************************************)
(* Bounds of the model.                                                    *)
(***************************************************************************)
\* number of rows the transfers table grows to in a run
MaxRows == 2
\* number of storage operations that fail in a run
MaxFaults == 1

(***************************************************************************)
(* JSON values.  Every value is a record [ty, v]: ty is the Python type    *)
(* json.loads yields ("int", "str", "list", "dict", "none"; "absent" for a *)
(* key that is not in the dict), v names the value.                        *)
(***************************************************************************)
Val(ty, v) == [ty |-> ty, v |-> v]
ABSENT == Val("absent", "")

\* src/humed.py:30 with MESSAGE_VERSION = 1 (src/hume.py:19)
SUPPORTED_MSG_VERSIONS == {Val("int", "1")}

\* src/hume.py:24
LEVELS == {"info", "ok", "warning", "error", "critical", "debug", "unknown"}

\* The queue token run() puts: ('work') is the plain string 'work'.
WORK == <<"w", "o", "r", "k">>

(***************************************************************************)
(* Hostnames.  is_valid_hostname lives in humetools, which is not part of  *)
(* the sources; it is modelled from the data model's hostname rules:       *)
(* labels of 1-63 characters, alphanumeric or hyphen, no leading or        *)
(* trailing hyphen, at most 253 characters in all.                         *)
(***************************************************************************)
MaxLabelLen == 63
MaxHostLen == 253

\* the labels of the sample hostnames: length, whether every character is
\* alphanumeric or a hyphen, whether the label starts or ends with a hyphen
HostLabels(h) ==
    CASE h = "h1" -> << [n |-> 2, alnumhyphen |-> TRUE, edgehyphen |-> FALSE] >>
      [] h = "box1.example" ->
             << [n |-> 4, alnumhyphen |-> TRUE, edgehyphen |-> FALSE],
                [n |-> 7, alnumhyphen |-> TRUE, edgehyphen |-> FALSE] >>
      [] h = "bad_host" -> << [n |-> 8, alnumhyphen |-> FALSE, edgehyphen |-> FALSE] >>
      [] h = "label64" -> << [n |-> 64, alnumhyphen |-> TRUE, edgehyphen |-> FALSE] >>
      [] h = "-edge" -> << [n |-> 5, alnumhyphen |-> TRUE, edgehyphen |-> TRUE] >>
      [] OTHER -> << >>

RECURSIVE SumLens(_)
SumLens(ls) == IF ls = << >> THEN 0 ELSE Head(ls).n + 1 + SumLens(Tail(ls))

is_valid_hostname(h) ==
    LET ls == HostLabels(h) IN
    /\ Len(ls) >= 1
    /\ SumLens(ls) - 1 <= MaxHostLen
    /\ \A i \in 1..Len(ls) :
          /\ ls[i].n >= 1
          /\ ls[i].n <= MaxLabelLen
          /\ ls[i].alnumhyphen
          /\ ~ls[i].edgehyphen

(***************************************************************************)
(* Packets.  A decoded request body is [ty, token, hume]: ty is the type   *)
(* of the top-level JSON value, token the value under 'token', hume the    *)
(* value under 'hume' (the keys of the inner dict, and hty, its type).     *)
(***************************************************************************)
HumeFields(version, timestamp, hostname, level, msg, tags, task, extra) ==
    [version |-> version, timestamp |-> timestamp, hostname |-> hostname,
     level |-> level, msg |-> msg, tags |-> tags, task |-> task,
     extra |-> extra, hty |-> "dict"]

NoHume ==
    [version |-> ABSENT, timestamp |-> ABSENT, hostname |-> ABSENT,
     level |-> ABSENT, msg |-> ABSENT, tags |-> ABSENT, task |-> ABSENT,
     extra |-> ABSENT, hty |-> "absent"]

Packet(ty, token, hume) == [ty |-> ty, token |-> token, hume |-> hume]

TS1 == Val("str", "2024-01-01T00:00:00.000000")

GoodHume ==
    HumeFields(Val("int", "1"), TS1, Val("str", "h1"), Val("str", "error"),
               Val("str", "disk low"), Val("list", "ops"), Val("str", "t1"),
               Val("dict", "{}"))

\* the same task at another level, sent without tags and extra
BareHume ==
    [GoodHume EXCEPT !.level = Val("str", "ok"), !.tags = ABSENT, !.extra = ABSENT]

\* the inner dicts the requests of the model carry
HumeSamples ==
    { GoodHume,
      BareHume,
      [GoodHume EXCEPT !.version = Val("int", "2")],
      [GoodHume EXCEPT !.hostname = Val("str", "bad_host")] }

TokenSamples == {ABSENT, Val("str", "s3cret"), Val("str", "wrong")}

\* request bodies: undecodable bytes, a JSON list, JSON objects
RawBody == [kind |-> "raw", val |-> Packet("none", ABSENT, NoHume)]
JsonBody(p) == [kind |-> "json", val |-> p]
\* msg before the first request
NoBody == [kind |-> "none", val |-> Packet("none", ABSENT, NoHume)]

Bodies ==
    {RawBody, JsonBody(Packet("list", ABSENT, NoHume))}
      \cup {JsonBody(Packet("dict", t, GoodHume)) : t \in TokenSamples}
      \cup {JsonBody(Packet("dict", Val("str", "s3cret"), h)) : h \in HumeSamples}

\* a decoder that accepts every body
json_loads_any(text) == TRUE

\* json.loads succeeds on a body
json_loads_ok(text) == text.kind = "json"

\* item[3] of the queue token, the text syslog() and logstash() decode
TokenField(item) == [kind |-> "raw", val |-> Packet("none", Val("str", item[4]), NoHume)]

(***************************************************************************)
(* Validation and authentication (pure functions of the listener).         *)
(***************************************************************************)
\* is_valid_hume without the membership test on the version
is_valid_hume_anyversion(hume) ==
    IF hume.ty # "dict" THEN FALSE
    ELSE IF hume.hume.hty # "dict" THEN FALSE
    ELSE LET pkt == hume.hume IN
      IF pkt.version.ty # "int" THEN FALSE
      ELSE IF pkt.timestamp.ty # "str" THEN FALSE
      ELSE IF pkt.hostname.ty = "absent" \/ ~is_valid_hostname(pkt.hostname.v) THEN FALSE
      ELSE IF pkt.level.ty # "str" \/ pkt.level.v \notin LEVELS THEN FALSE
      ELSE IF pkt.msg.ty # "str" THEN FALSE
      ELSE IF pkt.tags.ty \notin {"absent", "list"} THEN FALSE
      ELSE IF pkt.task.ty \notin {"absent", "str"} THEN FALSE
      ELSE IF pkt.extra.ty \notin {"absent", "dict"} THEN FALSE
      ELSE TRUE

\* Humed.is_valid_hume
is_valid_hume(hume) ==
    IF hume.ty # "dict" THEN FALSE
    ELSE IF hume.hume.hty # "dict" THEN FALSE
    ELSE LET pkt == hume.hume IN
      IF pkt.version.ty # "int" THEN FALSE
      ELSE IF pkt.version \notin SUPPORTED_MSG_VERSIONS THEN FALSE
      ELSE IF pkt.timestamp.ty # "str" THEN FALSE
      ELSE IF pkt.hostname.ty = "absent" \/ ~is_valid_hostname(pkt.hostname.v) THEN FALSE
      ELSE IF pkt.level.ty # "str" \/ pkt.level.v \notin LEVELS THEN FALSE
      ELSE IF pkt.msg.ty # "str" THEN FALSE
      ELSE IF pkt.tags.ty \notin {"absent", "list"} THEN FALSE
      ELSE IF pkt.task.ty \notin {"absent", "str"} THEN FALSE
      ELSE IF pkt.extra.ty \notin {"absent", "dict"} THEN FALSE
      ELSE TRUE

\* a configured token is truthy: neither None nor the empty string
Truthy(v) == v.ty = "str" /\ v.v # ""

\* check_auth_token without the `if not self.auth_token` shortcut
check_auth_token_strict(token, m) ==
    IF m.ty # "dict" THEN "raise"
    ELSE IF m.token = token THEN "true" ELSE "false"

\* Humed.check_auth_token: "true", "false", or "raise" (msg.get on a value
\* that is no dict raises AttributeError)
check_auth_token(token, m) ==
    IF ~Truthy(token) THEN "true"
    ELSE IF m.ty # "dict" THEN "raise"
    ELSE IF m.token = token THEN "true" ELSE "false"

\* a pop that leaves the token in the packet
PopToken_keep(hume) == hume

\* hume.pop('token', None): the packet without its token key
PopToken(hume) == [hume EXCEPT !.token = ABSENT]

\* json.dumps of a packet, the text stored in the transfers table
json_dumps(hume) == JsonBody(hume)

(***************************************************************************)
(* State.                                                                  *)
(***************************************************************************)
VARIABLES
    transfer_method,  \* self.transfer_method, fixed at startup
    auth_token,       \* self.auth_token, fixed at startup
    metrics_server,   \* self.metrics_server: "None", "serving" or "closed"
    transfers,        \* the table: row rowid is transfers[rowid] = [ts, sent, hume]
    status,           \* self.status: (hostname, task) -> [level, ts]
    queue,            \* self.queue: the number of 'work' tokens in it
    faults,           \* storage operations that have failed so far
    l_pc,             \* the listener's position in run()
    msg,              \* run(): the body received last
    hume,             \* run(): the decoded packet
    replies,          \* the replies sent for the request in hand
    rowid,            \* run(): what add_transfer returned (0 for None)
    uncommitted,      \* the rows inserted in self.conn's open transaction
    w_pc,             \* the worker's position in worker_process_transfers()
    pendientes,       \* the worker's snapshot of pending rowids
    w_i,              \* index in pendientes of the rowid the loop is at
    cycles,           \* whether the worker has consumed a signal yet
    hist,             \* history, per rowid: the backend invocations for it
    probe             \* the call made last of a function checked on its own

vars == <<transfer_method, auth_token, metrics_server, transfers, status, queue, faults, l_pc,
          msg, hume, replies, rowid, uncommitted, w_pc, pendientes, w_i, cycles, hist,
          probe>>

\* what no step of listener and worker changes: the configuration, and the
\* record of the calls made apart from them
config == <<transfer_method, auth_token, metrics_server, probe>>
listener == <<l_pc, msg, hume, replies, rowid, uncommitted>>
worker == <<w_pc, pendientes, w_i, cycles>>

\* the transfer methods a daemon can be configured with: TRANSFER_METHODS
\* (lines 35-51), 'plugin' standing for a method provided by a loaded plugin
Methods == {"syslog", "rsyslog", "slack", "kant", "logstash", "plugin"}

\* self.plugin (line 135), as a truth value: get_plugin returns the plugin
\* loaded under the method's name, None for a method no plugin provides
get_plugin(method) == method = "plugin"

\* the port under metrics.port of the configuration, None when it has none
NoPort == Val("none", "")
MetricsPorts == {NoPort, Val("int", "9100")}

\* Humed.start_metrics_server: what self.metrics_server is after it
start_metrics_server(port) == IF port = NoPort THEN "None" ELSE "serving"

\* Humed.stop_metrics_server: shutdown and server_close when there is a
\* server
stop_metrics_server(server) == IF server = "None" THEN "None" ELSE "closed"

NoToken == Val("none", "")
AuthTokens == {NoToken, Val("str", "s3cret")}

NoPacket == Packet("none", ABSENT, NoHume)

\* a call: the function, its arguments, what it returned
Probe(call, args, result) == [call |-> call, args |-> args, result |-> result]
NoProbe == Probe("none", << >>, "")

Row(ts, sent, text) == [hume |-> text, ts |-> ts, sent |-> sent]

\* tables a previous run of the daemon can have left: none, a pending row,
\* a pending row whose payload does not decode
PriorTables ==
    { << >>,
      << Row(0, FALSE, json_dumps(Packet("dict", ABSENT, GoodHume))) >>,
      << Row(0, FALSE, RawBody) >> }

\* the tables of up to MaxRows rows of a valid packet, each sent or pending
RECURSIVE TablesOf(_)
TablesOf(n) ==
    IF n = 0 THEN { << >> }
    ELSE LET shorter == TablesOf(n - 1) IN
         shorter \cup
         { Append(t, Row(Len(t) + 1, b, json_dumps(Packet("dict", ABSENT, GoodHume)))) :
             t \in {u \in shorter : Len(u) = n - 1}, b \in BOOLEAN }

\* the process is running: an exception that leaves run() ends the main
\* thread ("dead"); the worker and the metrics server are daemon threads
\* (lines 160, 711), which go on until the interpreter has shut down
\* ("exited")
Running == l_pc # "exited"

(***************************************************************************)
(* Durable queue store.                                                    *)
(***************************************************************************)
RECURSIVE SelectRowids(_, _, _)
SelectRowids(table, i, pending) ==
    IF i > Len(table) THEN << >>
    ELSE IF pending /\ table[i].sent THEN SelectRowids(table, i + 1, pending)
    ELSE <<i>> \o SelectRowids(table, i + 1, pending)

\* list_transfers2 without the WHERE sent = 0 of the pending query
list_transfers2_all(table, pending, ok) ==
    IF ok THEN SelectRowids(table, 1, FALSE) ELSE << >>

\* Humed.list_transfers2: the rowids, of the pending rows when pending is
\* True; [] when the query fails
list_transfers2(table, pending, ok) ==
    IF ok THEN SelectRowids(table, 1, pending) ELSE << >>

\* what the database does to a call of add_transfer: the INSERT and the
\* commit work ("ok"), the INSERT raises ("insert": another connection is
\* writing), or the INSERT works and the commit raises ("commit": another
\* connection is reading)
AddOutcomes == {"ok", "insert", "commit"}

\* an add_transfer whose commit puts the rows of the transaction ahead of
\* the rows of the table
add_transfer_ahead(table, unc, pkt, now, out) ==
    LET row == Row(now, FALSE, json_dumps(pkt)) IN
    CASE out = "insert" -> [table |-> table, unc |-> unc, ret |-> 0]
      [] out = "commit" -> [table |-> table, unc |-> Append(unc, row), ret |-> 0]
      [] OTHER -> [table |-> Append(unc, row) \o table, unc |-> << >>,
                   ret |-> Len(table) + Len(unc) + 1]

\* Humed.add_transfer, on the connection self.conn that prepare_db opened
\* and that is never rolled back: the table, the rows inserted in the open
\* transaction of self.conn (unc) and the value returned (the rowid, 0 for
\* None).  The INSERT adds the row to the transaction and the commit makes
\* every row of the transaction a row of the table; when the commit raises,
\* the exception is swallowed and the row stays in the transaction, to be
\* committed by the commit of a later call
add_transfer(table, unc, pkt, now, out) ==
    LET row == Row(now, FALSE, json_dumps(pkt)) IN
    CASE out = "insert" -> [table |-> table, unc |-> unc, ret |-> 0]
      [] out = "commit" -> [table |-> table, unc |-> Append(unc, row), ret |-> 0]
      [] OTHER -> [table |-> table \o Append(unc, row), unc |-> << >>,
                   ret |-> Len(table) + Len(unc) + 1]

\* transfer_ok whose UPDATE changes no row
transfer_ok_noop(table, id) == table

\* Humed.transfer_ok: UPDATE transfers SET sent=1 WHERE rowid=?
transfer_ok(table, id) ==
    [i \in 1..Len(table) |-> IF i = id THEN [table[i] EXCEPT !.sent = TRUE] ELSE table[i]]

\* what transfer_ok returns: False when connecting, the UPDATE or the commit
\* raises (ok = FALSE), else True, whatever rows the UPDATE matched
transfer_ok_ret(table, id, ok) == IF ok THEN "True" ELSE "False"

\* Humed.get_humepkt_from_transfers: False (ok = FALSE) for a payload that
\* does not decode, else {rowid, ts, hume} with extra defaulted to {}
get_humepkt_from_transfers(table, id) ==
    LET row == table[id] IN
    IF ~json_loads_ok(row.hume)
    THEN [hume |-> NoPacket, rowid |-> id, ts |-> row.ts, ok |-> FALSE]
    ELSE LET h == row.hume.val
             e == h.hume.extra
             h2 == IF e.ty \in {"absent", "none"}
                   THEN [h EXCEPT !.hume.extra = Val("dict", "{}")] ELSE h
         IN [hume |-> h2, rowid |-> id, ts |-> row.ts, ok |-> TRUE]

(***************************************************************************)
(* Delivery backends.  Each returns "true", "false", "none" (a value that  *)
(* is neither), or "raise" when an exception leaves the method.            *)
(***************************************************************************)
\* Humed.syslog (also used for rsyslog): item is the queue token, and
\* item[3] is decoded as the packet; past the decoding, line 571 names the
\* undefined humelevel
syslog(item) ==
    IF ~json_loads_ok(TokenField(item)) THEN "false" ELSE "raise"

\* Humed.logstash: the same decoding of item[3]; past it, hume['humecmd']
\* is read from the decoded value
logstash(item) ==
    IF ~json_loads_ok(TokenField(item)) THEN "false" ELSE "raise"

\* the URL the configuration holds under a key
Url(chan) == "https://hooks.example/" \o chan

\* a choice that does not fall back to webhook_default
slack_webhook_nofallback(task, level, isdict, tasks, keys) ==
    IF isdict /\ task \in tasks
    THEN <<"task_channels[" \o task \o "]", Url("task_channels[" \o task \o "]")>>
    ELSE LET chan == IF level \in {"ok", "info"} THEN "webhook_default"
                     ELSE IF level \in {"warning", "unknown"} THEN "webhook_warning"
                     ELSE "webhook_" \o level
         IN <<chan, IF chan \in keys THEN Url(chan) ELSE "raise">>

\* Humed.slack, lines 431-446: <<chan, webhook>> for a task and a level,
\* task_channels being a dict (isdict) with the keys tasks and the backend
\* configuration having the keys keys; "raise" when
\* self.transfer_method_args[chan] raises KeyError
slack_webhook(task, level, isdict, tasks, keys) ==
    IF isdict /\ task \in tasks
    THEN <<"task_channels[" \o task \o "]", Url("task_channels[" \o task \o "]")>>
    ELSE LET chan0 == IF level \in {"ok", "info"} THEN "webhook_default"
                      ELSE IF level \in {"warning", "unknown"} THEN "webhook_warning"
                      ELSE "webhook_" \o level
             chan == IF chan0 \notin keys THEN "webhook_default" ELSE chan0
         IN <<chan, IF chan \in keys THEN Url(chan) ELSE "raise">>

\* the outcomes of the template renderer and of requests.post
Templates == {"none", "content"}
HttpOutcomes == {"200", "500", "raise"}

\* a slack() that takes every HTTP response for a delivery
slack_anystatus(humepkt, id, tpl, http) ==
    IF ~humepkt.ok THEN "raise"
    ELSE LET h == humepkt.hume.hume IN
      IF h.tags.ty = "absent" \/ h.task.ty = "absent" THEN "raise"
      ELSE IF tpl = "none" THEN "raise"
      ELSE IF http = "raise" THEN "raise"
      ELSE "true"

\* Humed.slack: humepkt['hume'] on False raises, hume['tags'] and
\* hume['task'] raise on a missing key, json.dumps of the fallback set
\* {'text', m} raises, requests.post raises on a transport error
slack(humepkt, id, tpl, http) ==
    IF ~humepkt.ok THEN "raise"
    ELSE LET h == humepkt.hume.hume IN
      IF h.tags.ty = "absent" \/ h.task.ty = "absent" THEN "raise"
      ELSE IF tpl = "none" THEN "raise"
      ELSE IF http = "raise" THEN "raise"
      ELSE IF http = "200" THEN "true" ELSE "false"

\* what a plugin's send can do
PluginOutcomes == {"true", "false", "none", "raise"}

\* the call of self.plugin.send with no try/except around it
plugin_send_uncaught(out) == out

\* the try/except around self.plugin.send in worker_process_transfers
plugin_send(out) == IF out = "raise" THEN "false" ELSE out

\* the if/elif chain of worker_process_transfers, lines 222-236: what ret
\* holds after it; for a method that has no branch and no plugin nothing is
\* assigned and ret is "unbound"
Dispatch(method, item, humepkt, id, tpl, http, out) ==
    IF method = "logstash" THEN logstash(item)
    ELSE IF method = "syslog" THEN syslog(item)
    ELSE IF method = "rsyslog" THEN syslog(item)
    ELSE IF method = "slack" THEN slack(humepkt, id, tpl, http)
    ELSE IF get_plugin(method) THEN plugin_send(out)
    ELSE "unbound"

\* the if/elif chain of Humed.process_transfers, lines 372-379: it has no
\* plugin branch, and its calls for logstash, syslog and rsyslog name item,
\* which the method does not define (NameError); for a method that has no
\* branch ret is "unbound"
process_transfers_chain(method, humepkt, id, tpl, http) ==
    IF method = "logstash" THEN "raise"
    ELSE IF method = "syslog" THEN "raise"
    ELSE IF method = "rsyslog" THEN "raise"
    ELSE IF method = "slack" THEN slack(humepkt, id, tpl, http)
    ELSE "unbound"

(***************************************************************************)
(* Status table.                                                           *)
(***************************************************************************)
\* datetime.fromisoformat(ts).timestamp(), or time.time() when that raises
Epoch(ts, now) ==
    IF ts = TS1 THEN 1704067200 ELSE now

\* an update that keeps the entry a key already has
update_status_first(st, pkt, now) ==
    LET key == <<pkt.hume.hostname.v, pkt.hume.task.v>>
        val == [level |-> pkt.hume.level.v, ts |-> Epoch(pkt.hume.timestamp, now)]
    IN [k \in (DOMAIN st) \cup {key} |-> IF k \in DOMAIN st THEN st[k] ELSE val]

\* Humed.update_status: last write wins per (hostname, task)
update_status(st, pkt, now) ==
    LET key == <<pkt.hume.hostname.v, pkt.hume.task.v>>
        val == [level |-> pkt.hume.level.v, ts |-> Epoch(pkt.hume.timestamp, now)]
    IN [k \in (DOMAIN st) \cup {key} |-> IF k = key THEN val ELSE st[k]]

\* str.replace('"', '\\"') on the strings of the model
QUOTED == "db \"main\""
Escape(str) == IF str = QUOTED THEN "db \\\"main\\\"" ELSE str

\* Humed.render_metrics: the TYPE line, then one line per item of
\* self.status, <<metric, hostname, task, level, int(ts)>>
render_metrics(st) ==
    { <<"# TYPE hume_task_last_ts_seconds gauge">> } \cup
    { <<"hume_task_last_ts_seconds", Escape(k[1]), Escape(k[2]),
        Escape(st[k].level), st[k].ts>> : k \in DOMAIN st }

\* a handler that does not look at the Authorization header
do_GET_open(path, metrics_token, header) ==
    IF path = "/metrics" THEN "200" ELSE "404"

\* _MetricsHandler.do_GET: the status code sent for a path, a configured
\* metrics token and an Authorization header
do_GET(path, metrics_token, header) ==
    IF path = "/metrics"
    THEN IF Truthy(metrics_token)
         THEN LET auth == IF header = ABSENT THEN "" ELSE header.v IN
              IF auth # "Bearer " \o metrics_token.v THEN "403" ELSE "200"
         ELSE "200"
    ELSE "404"

\* history of a row: the backend invocations for it, of which trues returned
\* True and mfails of those were followed by a failed transfer_ok; the last
\* one was in the worker's current cycle ("cur"), the one before ("prev") or
\* an older one ("old"), was the cn-th for the row in that cycle, and
\* returned True ("true"), something else ("failed"), or raised ("raise")
NoCalls == [cn |-> 0, trues |-> 0, mfails |-> 0, age |-> "old", ret |-> "never"]

\* the transfer method was invoked for row id and did ret
Called(h, id, ret) ==
    [h EXCEPT ![id] = [cn |-> IF @.age = "cur" THEN @.cn + 1 ELSE 1,
                       trues |-> @.trues + (IF ret = "true" THEN 1 ELSE 0),
                       mfails |-> @.mfails,
                       age |-> "cur",
                       ret |-> IF ret \in {"true", "raise"} THEN ret ELSE "failed"]]

\* the transfer_ok that followed the delivery of row id failed
MarkFailed(h, id) == [h EXCEPT ![id].mfails = @ + 1]

\* a new cycle starts: the invocations of the current one are now of the
\* previous one
Aged(h) ==
    [i \in 1..Len(h) |->
        [h[i] EXCEPT !.age = IF @ = "cur" THEN "prev" ELSE "old",
                     !.cn = 0]]

(***************************************************************************)
(* Initial state: after Humed.__init__ (queue empty, worker started and    *)
(* blocked in queue.get, table created), before run(); the daemon is       *)
(* configured without a metrics port.                                      *)
(***************************************************************************)
Init ==
    /\ transfer_method \in Methods
    /\ auth_token \in AuthTokens
    /\ metrics_server = start_metrics_server(NoPort)
    /\ transfers \in PriorTables
    /\ status = << >>
    /\ queue = 0
    /\ faults = 0
    /\ l_pc = "start"
    /\ msg = NoBody
    /\ hume = NoPacket
    /\ replies = << >>
    /\ rowid = 0
    /\ uncommitted = << >>
    /\ w_pc = "get"
    /\ pendientes = << >>
    /\ w_i = 1
    /\ cycles = FALSE
    /\ hist = [i \in 1..Len(transfers) |-> NoCalls]
    /\ probe = NoProbe

\* datetime.datetime.now() and time.time(): the clock advances with the
\* receipts inserted
Now == Len(transfers) + Len(uncommitted) + 1

\* self.conn holds the lock of the database file: a commit that failed has
\* left its transaction open, and until a later commit of self.conn works
\* the connections of get_sqlite_conn can neither read nor write
Locked == uncommitted # << >>

\* a storage operation on a connection of get_sqlite_conn fails (ok = FALSE)
\* whenever self.conn holds the lock, and otherwise only while the fault
\* budget lasts; the failures that the lock causes are not charged
StorageOutcome(ok) == IF Locked THEN ~ok ELSE ok \/ faults < MaxFaults
Charge(ok) == IF ok \/ Locked THEN faults ELSE faults + 1

(***************************************************************************)
(* The listener, Humed.run.                                                *)
(***************************************************************************)
\* line 725: the first signal, put before the first request is awaited
L_Start ==
    /\ l_pc = "start"
    /\ queue' = queue + 1
    /\ l_pc' = "await"
    /\ UNCHANGED <<config, transfers, status, faults, msg, hume, replies, rowid, uncommitted,
                   worker, hist>>

\* lines 736-739: the poll times out and the loop continues
L_PollTimeout ==
    /\ l_pc = "await"
    /\ UNCHANGED vars

\* run() sending the acknowledgement only after the packet was handled:
\* nothing is sent yet for a body that decodes and authenticates
ReplyFor_late(token, text) ==
    IF ~json_loads_ok(text) THEN "Invalid JSON message"
    ELSE IF check_auth_token(token, text.val) = "false" THEN "AUTHFAIL" ELSE ""

\* lines 740-756, the reply run() sends for a body: json.loads fails,
\* check_auth_token fails, or the acknowledgement; "" when check_auth_token
\* raises and nothing is sent
ReplyFor(token, text) ==
    IF ~json_loads_ok(text) THEN "Invalid JSON message"
    ELSE LET a == check_auth_token(token, text.val) IN
         CASE a = "true" -> "OK"
           [] a = "false" -> "AUTHFAIL"
           [] OTHER -> ""

\* where run() stands after it has answered a body with r: back at the poll
\* after "Invalid JSON message" and "AUTHFAIL"; out of run() on an
\* exception, in check_auth_token or in hume.pop('token', None) on a value
\* that is no dict; else at is_valid_hume
AfterReply(r, text) ==
    CASE r = "" -> "dead"
      [] r # "OK" -> "await"
      [] text.val.ty # "dict" -> "dead"
      [] OTHER -> "acked"

\* lines 736-757: a request arrives, is decoded, authenticated and
\* answered, and the token is popped
L_Recv(body) ==
    /\ l_pc = "await"
    /\ Len(transfers) + Len(uncommitted) < MaxRows
    /\ LET r == ReplyFor(auth_token, body)
           to == AfterReply(r, body)
       IN /\ replies' = IF r = "" THEN << >> ELSE <<r>>
          /\ hume' = IF to = "acked" THEN PopToken(body.val) ELSE NoPacket
          /\ l_pc' = to
    /\ msg' = body
    /\ UNCHANGED <<config, transfers, status, queue, faults, rowid, uncommitted, worker, hist>>

\* lines 758-759 and 764-767: is_valid_hume decides; a valid packet goes to
\* add_transfer, which inserts and commits on self.conn and returns the
\* rowid, or returns None (0) when the INSERT or the commit fails (out, a
\* failure only while the fault budget lasts); an invalid packet is dropped
L_Enqueue(out) ==
    /\ l_pc = "acked"
    /\ IF ~is_valid_hume(hume)
       THEN /\ out = "ok"
            /\ l_pc' = "await"
            /\ hume' = NoPacket
            /\ UNCHANGED <<transfers, uncommitted, hist, rowid, faults>>
       ELSE /\ out = "ok" \/ faults < MaxFaults
            /\ faults' = IF out = "ok" THEN faults ELSE faults + 1
            /\ LET r == add_transfer(transfers, uncommitted, hume, Now, out) IN
               /\ transfers' = r.table
               /\ uncommitted' = r.unc
               /\ rowid' = r.ret
               /\ hist' = [i \in 1..Len(r.table) |->
                              IF i <= Len(hist) THEN hist[i] ELSE NoCalls]
            /\ l_pc' = "stored"
            /\ hume' = hume
    /\ UNCHANGED <<config, status, queue, msg, replies, worker>>

\* line 762: update_status writes the entry of the packet's key, whatever
\* add_transfer returned
L_UpdateStatus ==
    /\ l_pc = "stored"
    /\ status' = update_status(status, hume, Now)
    /\ l_pc' = "signal"
    /\ hume' = NoPacket
    /\ UNCHANGED <<config, transfers, queue, faults, msg, replies, rowid, uncommitted, worker,
                   hist>>

\* line 763: queue.put(('work')), and back to the poll; the locals of the
\* iteration are dead
L_Signal ==
    /\ l_pc = "signal"
    /\ queue' = queue + 1
    /\ rowid' = 0
    /\ l_pc' = "await"
    /\ UNCHANGED <<config, transfers, status, faults, msg, hume, replies, uncommitted, worker,
                   hist>>

\* the exception has left run() and main(): the interpreter shuts down and
\* the daemon threads end with the process
L_Exit ==
    /\ l_pc = "dead"
    /\ l_pc' = "exited"
    /\ UNCHANGED <<config, transfers, status, queue, faults, msg, hume, replies, rowid,
                   uncommitted, worker, hist>>

(***************************************************************************)
(* The worker, Humed.worker_process_transfers.                             *)
(***************************************************************************)
\* where the worker stands with the snapshot p and the index i: in the for
\* loop, or past it (line 239, task_done) and back in queue.get
LoopOrGet(p, i) == IF i <= Len(p) THEN "loop" ELSE "get"

\* line 212: queue.get() returns a token
W_Get ==
    /\ Running
    /\ w_pc = "get"
    /\ queue > 0
    /\ queue' = queue - 1
    /\ cycles' = TRUE
    /\ w_pc' = "list"
    /\ UNCHANGED <<config, transfers, status, faults, listener, pendientes, w_i, hist>>

\* line 215: the pending rowids are listed, and the cycle over them begins
W_List(ok) ==
    /\ Running
    /\ w_pc = "list"
    /\ StorageOutcome(ok)
    /\ faults' = Charge(ok)
    /\ hist' = Aged(hist)
    /\ pendientes' = list_transfers2(transfers, TRUE, ok)
    /\ w_i' = 1
    /\ w_pc' = LoopOrGet(pendientes', 1)
    /\ UNCHANGED <<config, transfers, status, queue, listener, cycles>>

\* the inputs a transfer method does not read are held at one value
Relevant(method, tpl, http, out) ==
    /\ method # "slack" => tpl = "content" /\ http = "200"
    /\ ~get_plugin(method) => out = "true"

\* lines 219-236, an iteration up to `if ret is True`: the record is loaded
\* (a query that fails, as it does while self.conn holds the lock, leaves
\* rows unbound and the method raises) and the backend is invoked; an
\* exception ends the thread, and so does the test of line 237 when no
\* branch has assigned ret; when ret is True the worker stands before
\* transfer_ok, else the loop goes on
W_Send(gok, tpl, http, out) ==
    /\ Running
    /\ Relevant(transfer_method, tpl, http, out)
    /\ w_pc = "loop"
    /\ w_i <= Len(pendientes)
    /\ StorageOutcome(gok)
    /\ faults' = Charge(gok)
    /\ LET id == pendientes[w_i] IN
       IF ~gok
       THEN /\ w_pc' = "dead"
            /\ UNCHANGED <<w_i, hist>>
       ELSE LET humepkt == get_humepkt_from_transfers(transfers, id)
                ret == Dispatch(transfer_method, WORK, humepkt, id, tpl, http, out)
            IN IF ret = "unbound"
               THEN /\ w_pc' = "dead"
                    /\ UNCHANGED <<w_i, hist>>
               ELSE IF ret = "raise"
               THEN /\ hist' = Called(hist, id, ret)
                    /\ w_pc' = "dead"
                    /\ w_i' = w_i
               ELSE IF ret = "true"
               THEN /\ hist' = Called(hist, id, ret)
                    /\ w_pc' = "mark"
                    /\ w_i' = w_i
               ELSE /\ hist' = Called(hist, id, ret)
                    /\ w_i' = w_i + 1
                    /\ w_pc' = LoopOrGet(pendientes, w_i + 1)
    /\ UNCHANGED <<transfer_method, auth_token, metrics_server, transfers, status, queue,
                   listener, pendientes, cycles>>

\* the iteration up to `if ret is True` as a step of the daemon
W_Dispatch(gok, tpl, http, out) ==
    /\ W_Send(gok, tpl, http, out)
    /\ UNCHANGED probe

\* lines 237-238 after a delivery: transfer_ok marks the row, its result
\* unused, and the loop goes on
W_Mark(mok) ==
    /\ Running
    /\ w_pc = "mark"
    /\ StorageOutcome(mok)
    /\ faults' = Charge(mok)
    /\ LET id == pendientes[w_i] IN
       /\ transfers' = IF mok THEN transfer_ok(transfers, id) ELSE transfers
       /\ hist' = IF mok THEN hist ELSE MarkFailed(hist, id)
    /\ w_i' = w_i + 1
    /\ w_pc' = LoopOrGet(pendientes, w_i + 1)
    /\ UNCHANGED <<config, status, queue, listener, pendientes, cycles>>

Next ==
    \/ L_Start
    \/ L_PollTimeout
    \/ \E body \in Bodies : L_Recv(body)
    \/ \E out \in AddOutcomes : L_Enqueue(out)
    \/ L_UpdateStatus
    \/ L_Signal
    \/ L_Exit
    \/ W_Get
    \/ \E ok \in BOOLEAN : W_List(ok)
    \/ \E gok \in BOOLEAN, tpl \in Templates, http \in HttpOutcomes,
          out \in PluginOutcomes :
          W_Dispatch(gok, tpl, http, out)
    \/ \E mok \in BOOLEAN : W_Mark(mok)

Spec == Init /\ [][Next]_vars

(***************************************************************************)
(* The run in which storage never fails and every delivery the transfer    *)
(* method attempts is accepted (template found, HTTP 200, plugin returns   *)
(* True), with the threads scheduled fairly.                               *)
(***************************************************************************)
NextLive ==
    \/ L_Start
    \/ L_PollTimeout
    \/ \E body \in Bodies : L_Recv(body)
    \/ L_Enqueue("ok")
    \/ L_UpdateStatus
    \/ L_Signal
    \/ L_Exit
    \/ W_Get
    \/ W_List(TRUE)
    \/ W_Dispatch(TRUE, "content", "200", "true")
    \/ W_Mark(TRUE)

LiveSpec ==
    /\ Init
    /\ [][NextLive]_vars
    /\ WF_vars(L_Start)
    /\ WF_vars(L_Enqueue("ok"))
    /\ WF_vars(L_UpdateStatus)
    /\ WF_vars(L_Signal)
    /\ WF_vars(L_Exit)
    /\ WF_vars(W_Get)
    /\ WF_vars(W_List(TRUE))
    /\ WF_vars(W_Dispatch(TRUE, "content", "200", "true"))
    /\ WF_vars(W_Mark(TRUE))

(***************************************************************************)
(* Properties.                                                             *)
(***************************************************************************)
Rows == 1..Len(transfers)

\* this step invokes the transfer method for row r
Invoked(r) == hist'[r].cn > hist[r].cn

\* the worker stands between the delivery of row r and its transfer_ok
Marking(r) == w_pc = "mark" /\ pendientes[w_i] = r

\* this step is the listener receiving and answering a request
RecvStep == l_pc = "await" /\ <<msg, replies, l_pc>>' # <<msg, replies, l_pc>>

\* this step is the listener's, past the acknowledgement
HandleStep == l_pc \in {"acked", "stored", "signal"} /\ l_pc' # l_pc

\* the token a body carries: absent unless it is an object with the key
TokenOf(body) == IF body.val.ty = "dict" THEN body.val.token ELSE ABSENT

\* C1: once a row's sent flag is true, no step of any later worker cycle
\* invokes the transfer method for that row.
C1_SentNeverInvoked ==
    [][\A r \in Rows : transfers[r].sent => ~Invoked(r)]_vars

\* a cycle that began after row r was marked has invoked the method for
\* another row and not for r
C1_Witness ==
    \E r \in Rows, q \in Rows :
        /\ transfers[r].sent /\ hist[r].ret = "true" /\ hist[r].age # "cur"
        /\ hist[q].age = "cur"

\* C2, as stated: after the transfer method returned True for a row once, it
\* is never invoked for that row again, whatever transfer_ok did.
C2_Original ==
    \A r \in Rows :
        hist[r].trues > 0 => hist[r].trues = 1 /\ hist[r].ret = "true"

\* C2, amended: after the transfer method returned True for a row and the
\* transfer_ok that followed set sent, it is never invoked for that row
\* again; a row is delivered again only after a transfer_ok that failed, so
\* the deliveries of a row are at most one more than its failed transfer_ok;
\* a row delivered with no failed transfer_ok is sent, or its transfer_ok
\* is still to come.
C2_NoDuplicateOnceMarked ==
    \A r \in Rows :
        /\ hist[r].trues <= 1 + hist[r].mfails
        /\ transfers[r].sent => hist[r].ret \in {"true", "never"}
        /\ (hist[r].trues > 0 /\ hist[r].mfails = 0) =>
               /\ hist[r].trues = 1
               /\ hist[r].ret = "true"
               /\ transfers[r].sent \/ Marking(r)

\* a row delivered twice, the first delivery followed by a failed transfer_ok
C2_Witness ==
    \E r \in Rows :
        hist[r].trues = 2 /\ hist[r].mfails = 1 /\ transfers[r].sent

\* C3: a row whose delivery failed keeps sent = false, is not invoked again
\* in the same cycle, and is invoked again in the cycle of the next consumed
\* signal (storage working): that cycle does not end, by completion or by
\* the worker stopping, before the row was invoked.
C3_FailedRetriedNextCycle ==
    \A r \in Rows :
        (faults = 0 /\ hist[r].ret = "failed") =>
            /\ ~transfers[r].sent
            /\ hist[r].age = "cur" => hist[r].cn = 1
            /\ hist[r].age = "prev" => w_pc \in {"loop", "mark"}
            /\ hist[r].age # "old"

\* row r is in the table with a payload the listener can have written
Persisted(r) == IF r \in Rows THEN json_loads_ok(transfers[r].hume) ELSE FALSE

Sent(r) == IF r \in Rows THEN transfers[r].sent ELSE FALSE

\* C4: every decodable row of the table is eventually marked sent, as long
\* as the daemon runs, when storage works, the backend accepts every
\* delivery and the threads are scheduled fairly.
C4_AtLeastOnce ==
    \A r \in 1..MaxRows :
        [](Persisted(r) => <>(Sent(r) \/ ~Running))

\* a body decodes and carries what authentication asks for
PassesAuth(body) ==
    /\ body.kind = "json"
    /\ Truthy(auth_token) => TokenOf(body) = auth_token

\* C5: a request whose body parses and passes authentication is answered
\* "OK" in the step that receives it, which touches neither table, status
\* nor queue; while the listener validates, stores, updates the status and
\* signals, that reply is already out and nothing else is sent.
C5_AckBeforePersist ==
    [][ /\ (RecvStep /\ PassesAuth(msg')) =>
               (replies' = <<"OK">> /\ UNCHANGED <<transfers, status, queue>>)
        /\ l_pc \in {"acked", "stored", "signal"} =>
               (PassesAuth(msg) /\ replies = <<"OK">> /\ replies' = replies)
        /\ HandleStep \/ UNCHANGED <<status, Len(transfers)>>
      ]_vars

\* a packet with an invalid hostname was acknowledged and then dropped
C5_Witness ==
    /\ msg.kind = "json"
    /\ msg.val.hume.hostname = Val("str", "bad_host")
    /\ replies = <<"OK">>
    /\ l_pc = "await"
    /\ Len(transfers) = 0

\* a packet of the model that the data model rejects: its version is not a
\* supported one, or its hostname is not a valid one
Rejected(pkt) ==
    \/ pkt.hume.version \notin SUPPORTED_MSG_VERSIONS
    \/ pkt.hume.hostname.v \in {"bad_host", "label64", "-edge"}

\* C6: the listener's handling of a packet that fails validation (its
\* version unsupported, its hostname invalid) leaves the transfers table,
\* the status mapping and the queue as they were and returns to the poll.
C6_InvalidLeavesStateUnchanged ==
    [][ (HandleStep /\ l_pc = "acked" /\ Rejected(hume)) =>
            (l_pc' = "await" /\ UNCHANGED <<transfers, status, queue>>)
      ]_vars

\* a version 2 packet was acknowledged and dropped, nothing stored
C6_Witness ==
    /\ msg.kind = "json"
    /\ msg.val.hume.version = Val("int", "2")
    /\ replies = <<"OK">>
    /\ l_pc = "await"
    /\ Len(transfers) = 0
    /\ DOMAIN status = {}

\* C7: with an auth token configured, the last request, if its body decoded
\* and its token is missing or different, was answered "AUTHFAIL" and the
\* listener is back at the poll.
C7_AuthFail ==
    (Truthy(auth_token) /\ msg.kind = "json" /\ TokenOf(msg) # auth_token) =>
        (replies = <<"AUTHFAIL">> /\ l_pc = "await")

\* C8: with no auth token configured, no request is answered "AUTHFAIL",
\* and every body that decodes is acknowledged whatever its token.
C8_NoTokenAcceptsAll ==
    ~Truthy(auth_token) =>
        /\ replies # <<"AUTHFAIL">>
        /\ msg.kind = "json" => replies = <<"OK">>

\* no token configured, and a packet carrying a token was stored
C8_Witness ==
    /\ ~Truthy(auth_token)
    /\ msg.kind = "json"
    /\ msg.val.token = Val("str", "wrong")
    /\ replies = <<"OK">>
    /\ rowid > 0

\* C9: a body that does not decode is answered "Invalid JSON message" in
\* the step that receives it, which touches neither table, status nor
\* queue, and the listener is back at the poll.
C9_InvalidJson ==
    [][ /\ (RecvStep /\ msg'.kind = "raw") => UNCHANGED <<transfers, status, queue>>
        /\ msg'.kind = "raw" =>
               (replies' = <<"Invalid JSON message">> /\ l_pc' = "await")
      ]_vars

\* undecodable bytes were answered, after a packet had been stored
C9_Witness ==
    /\ msg.kind = "raw"
    /\ replies = <<"Invalid JSON message">>
    /\ l_pc = "await"
    /\ Len(transfers) > 0

\* C10: the last request received has been answered with exactly one reply,
\* one of the three literal strings.
C10_OneReply ==
    msg # NoBody =>
        /\ Len(replies) = 1
        /\ replies[1] \in {"OK", "AUTHFAIL", "Invalid JSON message"}

\* C11: no request stops the listener: run() is never left.
C11_ListenerSurvives ==
    msg # NoBody => l_pc \notin {"dead", "exited"}

\* C12: no backend error halts the worker: with any of the five backends
\* and while storage works, the worker thread is never ended, and an
\* invocation that failed inside the backend counts as a failed delivery.
C12_WorkerSurvives ==
    /\ (faults = 0 /\ transfer_method # "kant") => w_pc # "dead"
    /\ \A r \in Rows : hist[r].ret # "raise"

\* C13: no decodable payload of the transfers table has a token key.
C13_NoTokenStored ==
    \A r \in Rows :
        json_loads_ok(transfers[r].hume) => transfers[r].hume.val.token = ABSENT

\* the request received last carried the configured token and its packet
\* was stored as row rowid
C13_Witness ==
    /\ l_pc = "signal"
    /\ rowid \in Rows
    /\ msg.val.token = Val("str", "s3cret")
    /\ transfers[rowid].hume.val.hume = msg.val.hume

\* C14: in every step each row of the table stays at its rowid with its
\* timestamp and payload, and a sent flag that is true stays true; no row
\* leaves the table.
C14_RecordsImmutable ==
    [][ /\ Len(transfers') >= Len(transfers)
        /\ \A r \in Rows :
              /\ transfers'[r].ts = transfers[r].ts
              /\ transfers'[r].hume = transfers[r].hume
              /\ transfers[r].sent => transfers'[r].sent
      ]_vars

\* a row was marked sent and a row was added after it
C14_Witness ==
    /\ Len(transfers) = 2
    /\ transfers[1].sent
    /\ ~transfers[2].sent
    /\ transfers[1].hume # transfers[2].hume

\* this step is the listener deciding on the packet it acknowledged, and
\* storing it if it is valid
DecideStep == l_pc = "acked" /\ l_pc' # l_pc

\* this step is the listener's update_status
StatusStep == l_pc = "stored" /\ l_pc' # l_pc

\* this step adds one pending row at the next rowid, which run() is given
OneRowAdded ==
    /\ Len(transfers') = Len(transfers) + 1
    /\ ~transfers'[Len(transfers')].sent
    /\ rowid' = Len(transfers')

\* C15: the table gains exactly one row, pending and at a new rowid, for
\* each request that passed authentication and validation, and gains rows
\* in no other way.
C15_OneRowPerPacket ==
    [][ /\ (DecideStep /\ is_valid_hume(hume)) => OneRowAdded
        /\ Len(transfers') # Len(transfers) => (DecideStep /\ is_valid_hume(hume))
      ]_vars

(***************************************************************************)
(* The listener and the metrics exporter on their own: the status mapping  *)
(* is written by update_status and read by render_metrics only, so the     *)
(* worker is left out and the requests vary in key and level.  The server  *)
(* thread started by start_metrics_server runs do_GET and render_metrics   *)
(* while the main thread runs run(), and no lock is taken around           *)
(* self.status, so the for loop of render_metrics is taken one item at a   *)
(* time.  The call in progress is kept in probe: the size of the dict when *)
(* the iterator was made, the keys yielded so far, the mapping as the call *)
(* read it last and whether it has read the same mapping all along, and    *)
(* the lines appended so far.                                              *)
(***************************************************************************)
StatusHumes ==
    { GoodHume,
      BareHume,
      [GoodHume EXCEPT !.task = Val("str", QUOTED), !.level = Val("str", "warning")],
      [GoodHume EXCEPT !.version = Val("int", "2"), !.level = Val("str", "critical")] }

StatusBodies ==
    {JsonBody(Packet("dict", Val("str", "s3cret"), h)) : h \in StatusHumes}
      \cup {JsonBody(Packet("dict", Val("str", "wrong"),
                            [GoodHume EXCEPT !.level = Val("str", "debug")]))}

\* after Humed.__init__ with a plugin method and an empty table, with and
\* without a metrics port in the configuration
StatusInit ==
    /\ transfer_method = "plugin"
    /\ auth_token \in AuthTokens
    /\ \E port \in MetricsPorts : metrics_server = start_metrics_server(port)
    /\ transfers = << >>
    /\ status = << >>
    /\ queue = 0
    /\ faults = 0
    /\ l_pc = "start"
    /\ msg = NoBody
    /\ hume = NoPacket
    /\ replies = << >>
    /\ rowid = 0
    /\ uncommitted = << >>
    /\ w_pc = "get"
    /\ pendientes = << >>
    /\ w_i = 1
    /\ cycles = FALSE
    /\ hist = << >>
    /\ probe = NoProbe

\* do_GET calling render_metrics, up to line 671, self.status.items(): the
\* iterator is made, lines holds the TYPE line; the server thread handles
\* one request at a time
M_Begin ==
    /\ Running
    /\ metrics_server = "serving"
    /\ probe.call # "for"
    /\ probe' = Probe("for", <<Cardinality(DOMAIN status), {}, status, TRUE>>,
                      render_metrics(<< >>))
    /\ UNCHANGED <<transfer_method, auth_token, metrics_server, transfers, status, queue,
                   faults, listener, worker, hist>>

\* lines 671-678, the next item: the dict iterator raises RuntimeError when
\* the size of the dict is not what it was when the iterator was made (the
\* exception leaves do_GET and nothing is sent); past the last item the
\* lines are returned; else the item's line is appended (probe.call tells
\* how the call stands: "for", returned, or raised)
M_Next ==
    /\ Running
    /\ probe.call = "for"
    /\ LET n == probe.args[1]
           yielded == probe.args[2]
           same == probe.args[4] /\ status = probe.args[3]
       IN IF Cardinality(DOMAIN status) # n
          THEN probe' = Probe("RuntimeError", <<n, yielded, status, same>>, probe.result)
          ELSE IF yielded = DOMAIN status
          THEN probe' = Probe("render_metrics", <<n, yielded, status, same>>, probe.result)
          ELSE \E k \in (DOMAIN status) \ yielded :
                  probe' = Probe("for", <<n, yielded \cup {k}, status, same>>,
                                 probe.result \cup render_metrics([x \in {k} |-> status[x]]))
    /\ UNCHANGED <<transfer_method, auth_token, metrics_server, transfers, status, queue,
                   faults, listener, worker, hist>>

\* Humed.stop_metrics_server: shutdown returns once serve_forever has left
\* its loop, after the request in hand
M_Stop ==
    /\ Running
    /\ probe.call # "for"
    /\ metrics_server # "None"
    /\ metrics_server' = stop_metrics_server(metrics_server)
    /\ UNCHANGED <<transfer_method, auth_token, probe, transfers, status, queue, faults,
                   listener, worker, hist>>

NextStatus ==
    \/ L_Start
    \/ L_PollTimeout
    \/ \E body \in StatusBodies : L_Recv(body)
    \/ \E out \in AddOutcomes : L_Enqueue(out)
    \/ L_UpdateStatus
    \/ L_Signal
    \/ M_Begin
    \/ M_Next
    \/ M_Stop

StatusSpec == StatusInit /\ [][NextStatus]_vars

\* this step writes the entry of the acknowledged packet's key, with the
\* packet's level, and no other entry
LastWriteWins ==
    LET key == <<hume.hume.hostname.v, hume.hume.task.v>> IN
    /\ DOMAIN status' = (DOMAIN status) \cup {key}
    /\ status'[key].level = hume.hume.level.v
    /\ \A k \in (DOMAIN status) \ {key} : status'[k] = status[k]

\* lines has, besides the TYPE line, one line per key of st, with its level
OneLinePerKey(lines, st) ==
    /\ Cardinality(lines) = Cardinality(DOMAIN st) + 1
    /\ \A k \in DOMAIN st :
          \E line \in lines :
              /\ Len(line) = 5
              /\ line[1] = "hume_task_last_ts_seconds"
              /\ <<line[2], line[3], line[4]>> =
                     <<Escape(k[1]), Escape(k[2]), Escape(st[k].level)>>

\* lines has, besides the TYPE line, one line per key of st
OneLineEachKey(lines, st) ==
    /\ Cardinality(lines) = Cardinality(DOMAIN st) + 1
    /\ \A k \in DOMAIN st :
          \E line \in lines :
              /\ Len(line) = 5
              /\ line[1] = "hume_task_last_ts_seconds"
              /\ <<line[2], line[3]>> = <<Escape(k[1]), Escape(k[2])>>

\* C16: the listener comes to update_status with every authenticated,
\* valid packet and with no other; the status mapping changes only in that
\* step, and then the entry of the packet's (hostname, task) takes the
\* packet's level and the other entries stay; every render_metrics call
\* that returns, returns exactly one line per key of the mapping, and each
\* line carries the level the mapping holds for its key when no request was
\* handled between the call's first item and its return.
C16_StatusLastWriteWins ==
    [][ /\ DecideStep => (l_pc' = "stored" <=> is_valid_hume(hume))
        /\ l_pc' = "stored" => (l_pc = "stored" \/ (DecideStep /\ PassesAuth(msg)))
        /\ IF StatusStep
           THEN LastWriteWins /\ hume = PopToken(msg.val)
           ELSE status' = status
        /\ (probe' # probe /\ probe'.call = "render_metrics") =>
               /\ OneLineEachKey(probe'.result, status)
               /\ probe'.args[4] => OneLinePerKey(probe'.result, status)
      ]_vars

\* (h1, t1) was written at level error and then at level ok, a second key
\* was written, and the metrics were rendered
C16_Witness ==
    /\ DOMAIN status = {<<"h1", "t1">>, <<"h1", QUOTED>>}
    /\ status[<<"h1", "t1">>].level = "ok"
    /\ Len(transfers) > 0
    /\ transfers[1].hume.val.hume.level = Val("str", "error")
    /\ probe.call = "render_metrics"
    /\ probe.args[4]
    /\ probe.result = render_metrics(status)

(***************************************************************************)
(* The functions that read no state of the daemon but their arguments and  *)
(* the configuration, each called on its own with arguments drawn from     *)
(* sample sets.                                                            *)
(***************************************************************************)
Paths == {"/metrics", "/", "/metrics/", "/status"}
MetricsTokens == {NoToken, Val("str", ""), Val("str", "tok")}
AuthHeaders ==
    {ABSENT, Val("str", "Bearer tok"), Val("str", "Bearer other"),
     Val("str", "tok"), Val("str", "bearer tok")}

Tasks == {"t1", "t2"}
TaskChannels == {{}, {"t1"}}
ConfigKeys ==
    { {"webhook_default"},
      {"webhook_default", "webhook_warning"},
      {"webhook_default", "webhook_error", "webhook_debug"},
      {"webhook_default", "webhook_warning", "webhook_critical"},
      {"webhook_warning"} }

\* the records the slack backend is handed: stored with and without tags
Stored(kind) ==
    LET h == IF kind = "bare" THEN BareHume ELSE GoodHume
    IN get_humepkt_from_transfers(
           <<Row(0, FALSE, json_dumps(Packet("dict", ABSENT, h)))>>, 1)

\* the client, Hume.send (src/hume.py): what poller.poll and recv_string
\* give it, ABSENT standing for a poll that times out
ClientReplies ==
    {ABSENT, Val("str", "OK"), Val("str", "AUTHFAIL"),
     Val("str", "Invalid JSON message"), Val("str", "OK\n"), Val("str", " OK "),
     Val("str", "ok"), Val("str", "OK OK"), Val("str", "")}

\* what sock.send_string can do
SendOutcomes == {"sent", "ZMQError", "Exception"}

\* str.strip() on the replies of the model
Strip(str) ==
    CASE str = "OK\n" -> "OK"
      [] str = " OK " -> "OK"
      [] OTHER -> str

\* a send that takes every reply received for success
send_anyreply(connects, sends, reply) ==
    IF ~connects THEN "exit 2"
    ELSE IF sends = "ZMQError" THEN "exit 3"
    ELSE IF sends # "sent" THEN "exit 4"
    ELSE IF reply = ABSENT THEN "None"
    ELSE "True"

\* Hume.send: sys.exit(2) when connect raises, sys.exit(3) or sys.exit(4)
\* when send_string raises (sends names what it did), None when the poll
\* times out, else True or False by the reply
send(connects, sends, reply) ==
    IF ~connects THEN "exit 2"
    ELSE IF sends = "ZMQError" THEN "exit 3"
    ELSE IF sends # "sent" THEN "exit 4"
    ELSE IF reply = ABSENT THEN "None"
    ELSE IF Strip(reply.v) = "OK" THEN "True" ELSE "False"

\* run() of the client, lines 296-301: the exit status of the process
client_exit(r) ==
    CASE r = "exit 2" -> 2
      [] r = "exit 3" -> 3
      [] r = "exit 4" -> 4
      [] r = "True" -> 0
      [] OTHER -> 1

FnInit ==
    /\ Init
    /\ transfer_method = "slack"
    /\ auth_token = NoToken
    /\ transfers = << >>

Untouched ==
    UNCHANGED <<transfer_method, auth_token, metrics_server, transfers, status, queue, faults,
                listener, worker, hist>>

F_Get(path, token, header) ==
    /\ probe' = Probe("do_GET", <<path, token, header>>, do_GET(path, token, header))
    /\ Untouched

F_Webhook(task, level, isdict, tasks, keys) ==
    /\ probe' = Probe("slack_webhook", <<task, level, isdict, tasks, keys>>,
                      slack_webhook(task, level, isdict, tasks, keys))
    /\ Untouched

F_Slack(kind, tpl, http) ==
    /\ probe' = Probe("slack", <<kind, tpl, http>>, slack(Stored(kind), 1, tpl, http))
    /\ Untouched

F_Send(connects, sends, reply) ==
    /\ probe' = Probe("send", <<connects, sends, reply>>,
                      <<send(connects, sends, reply),
                        client_exit(send(connects, sends, reply))>>)
    /\ Untouched

NextFn ==
    \/ \E path \in Paths, token \in MetricsTokens, header \in AuthHeaders :
          F_Get(path, token, header)
    \/ \E connects \in BOOLEAN, sends \in SendOutcomes, reply \in ClientReplies :
          F_Send(connects, sends, reply)
    \/ \E task \in Tasks, level \in LEVELS, isdict \in BOOLEAN,
          tasks \in TaskChannels, keys \in ConfigKeys :
          F_Webhook(task, level, isdict, tasks, keys)
    \/ \E kind \in {"good", "bare"}, tpl \in Templates, http \in HttpOutcomes :
          F_Slack(kind, tpl, http)

FnSpec == FnInit /\ [][NextFn]_vars

\* C17: GET /metrics is answered 200 when no metrics token is configured or
\* the Authorization header is "Bearer <token>", 403 when a token is
\* configured and the header is absent or different; any other path 404.
C17_MetricsHandler ==
    probe.call = "do_GET" =>
        LET path == probe.args[1]
            token == probe.args[2]
            header == probe.args[3]
            configured == token.ty = "str" /\ token.v # ""
            matches == header.ty = "str" /\ header.v = "Bearer " \o token.v
        IN /\ path # "/metrics" => probe.result = "404"
           /\ (path = "/metrics" /\ (~configured \/ matches)) => probe.result = "200"
           /\ (path = "/metrics" /\ configured /\ ~matches) => probe.result = "403"

\* a token is configured and another one is presented
C17_Witness ==
    /\ probe.call = "do_GET"
    /\ probe.args = <<"/metrics", Val("str", "tok"), Val("str", "Bearer other")>>
    /\ probe.result = "403"

\* C18: the webhook is the task's entry of task_channels if there is one;
\* else the key is webhook_default for ok and info, webhook_warning for
\* warning and unknown, webhook_<level> for the other levels, and
\* webhook_default when the configuration lacks that key; the webhook is
\* the configuration's value under the key.
C18_WebhookChoice ==
    probe.call = "slack_webhook" =>
        LET task == probe.args[1]
            level == probe.args[2]
            override == probe.args[3] /\ task \in probe.args[4]
            keys == probe.args[5]
            chan == probe.result[1]
            bylevel == CASE level \in {"ok", "info"} -> "webhook_default"
                         [] level \in {"warning", "unknown"} -> "webhook_warning"
                         [] level = "error" -> "webhook_error"
                         [] level = "critical" -> "webhook_critical"
                         [] level = "debug" -> "webhook_debug"
        IN /\ override => chan = "task_channels[" \o task \o "]"
           /\ (~override /\ bylevel \in keys) => chan = bylevel
           /\ (~override /\ bylevel \notin keys) => chan = "webhook_default"
           /\ (override \/ chan \in keys) => probe.result[2] = Url(chan)

\* level warning with no webhook_warning configured goes to webhook_default
C18_Witness ==
    /\ probe.call = "slack_webhook"
    /\ probe.args = <<"t2", "warning", TRUE, {"t1"},
                      {"webhook_default", "webhook_error", "webhook_debug"}>>
    /\ probe.result = <<"webhook_default", Url("webhook_default")>>

\* C19: with no template for a record that has tags and task, slack()
\* posts the fallback body and returns True on HTTP 200 and False on
\* another status: it does not raise.
C19_FallbackDelivers ==
    (probe.call = "slack" /\ probe.args[1] = "good" /\ probe.args[2] = "none") =>
        /\ probe.args[3] = "200" => probe.result = "true"
        /\ probe.args[3] = "500" => probe.result = "false"

\* this step turns the sent flag of row r from false to true
Flips(r) == ~transfers[r].sent /\ transfers'[r].sent

\* C20: with the slack backend, a row's sent flag turns true only in the
\* transfer_ok step of that row, which the worker reaches only from the
\* step that posted the row and got HTTP 200; a step in which the POST got
\* another status or failed changes no row and does not lead to
\* transfer_ok; the step whose POST got 200 leads to it, and a transfer_ok
\* that succeeds leaves the row sent.
C20_SentIffStatus200 ==
    [][ transfer_method = "slack" =>
          /\ \A r \in Rows :
                Flips(r) => /\ Marking(r)
                            /\ hist[r].ret = "true"
                            /\ W_Mark(TRUE)
          /\ w_pc' = "mark" =>
                \/ w_pc = "mark" /\ w_i' = w_i
                \/ W_Dispatch(TRUE, "content", "200", "true")
          /\ \A tpl \in Templates, http \in {"500", "raise"} :
                W_Dispatch(TRUE, tpl, http, "true") =>
                    (transfers' = transfers /\ w_pc' # "mark")
          /\ (/\ W_Dispatch(TRUE, "content", "200", "true")
              /\ hist'[pendientes[w_i]].ret = "true") => w_pc' = "mark"
          /\ W_Mark(TRUE) => transfers'[pendientes[w_i]].sent
      ]_vars

\* one row was posted with status 200 and marked, another got another
\* status and is pending
C20_Witness ==
    /\ transfer_method = "slack"
    /\ \E r \in Rows, q \in Rows :
          /\ transfers[r].sent /\ hist[r].ret = "true"
          /\ ~transfers[q].sent /\ hist[q].ret = "failed"

\* C21: with the syslog, rsyslog or logstash method, every decodable row the
\* method was invoked for had its write accepted (the handlers of the model
\* never refuse one): the method returned True, and the row is marked sent
\* unless its transfer_ok failed.
C21_LogBackendsDeliver ==
    transfer_method \in {"syslog", "rsyslog", "logstash"} =>
        \A r \in Rows :
            (Persisted(r) /\ hist[r].ret # "never") =>
                /\ hist[r].ret = "true"
                /\ (hist[r].mfails = 0 /\ ~Marking(r)) => transfers[r].sent

(***************************************************************************)
(* The daemon with a plugin as its transfer method, each iteration of the  *)
(* worker leaving a record of what the plugin's send did for the rowid:    *)
(* returned a value, raised, or was not reached because loading the record *)
(* failed.  The record stays until the next call.                          *)
(***************************************************************************)
PluginInit ==
    /\ Init
    /\ transfer_method = "plugin"

\* the iteration up to `if ret is True`, with the record of the call
W_PluginSend(gok, out) ==
    /\ W_Send(gok, "content", "200", out)
    /\ probe' = Probe("plugin.send", <<pendientes[w_i]>>,
                      IF gok THEN out ELSE "not called")

NextPlugin ==
    \/ L_Start
    \/ L_PollTimeout
    \/ \E body \in Bodies : L_Recv(body)
    \/ \E out \in AddOutcomes : L_Enqueue(out)
    \/ L_UpdateStatus
    \/ L_Signal
    \/ L_Exit
    \/ W_Get
    \/ \E ok \in BOOLEAN : W_List(ok)
    \/ \E gok \in BOOLEAN, out \in PluginOutcomes : W_PluginSend(gok, out)
    \/ \E mok \in BOOLEAN : W_Mark(mok)

PluginSpec == PluginInit /\ [][NextPlugin]_vars

\* C22: the step in which the plugin's send raises leaves the table as it
\* was (the row stays pending), counts for the row as a failed delivery and
\* moves the worker to the next rowid of the snapshot, or to queue.get
\* after the last; the worker thread never ends on what a plugin's send
\* did.
C22_PluginExceptionCaught ==
    [][ /\ (probe' # probe /\ probe'.result = "raise") =>
              LET id == pendientes[w_i] IN
              /\ transfers' = transfers
              /\ ~transfers'[id].sent
              /\ hist'[id].ret = "failed"
              /\ w_i' = w_i + 1
              /\ pendientes' = pendientes
              /\ w_pc' = LoopOrGet(pendientes, w_i + 1)
        /\ w_pc' = "dead" => probe'.result = "not called"
      ]_vars

\* in one cycle the plugin's send failed for row 1 and then raised for row
\* 2; both rows are pending and the worker is back in queue.get
C22_Witness ==
    /\ transfer_method = "plugin"
    /\ Len(transfers) = 2
    /\ ~transfers[1].sent
    /\ hist[1].ret = "failed" /\ hist[1].age = "cur"
    /\ ~transfers[2].sent
    /\ hist[2].ret = "failed" /\ hist[2].age = "cur"
    /\ probe = Probe("plugin.send", <<2>>, "raise")
    /\ w_pc = "get"

\* C23, as stated: send returns True only when a reply arrived and it is
\* exactly "OK"; on a timeout it returns None and the client exits with
\* status 1; on any other reply it returns False.
C23_Original ==
    probe.call = "send" =>
        LET reply == probe.args[3]
            reached == probe.args[1] /\ probe.args[2] = "sent"
        IN /\ probe.result[1] = "True" => (reached /\ reply = Val("str", "OK"))
           /\ (reached /\ reply = ABSENT) =>
                  (probe.result[1] = "None" /\ probe.result[2] = 1)
           /\ (reached /\ reply \notin {ABSENT, Val("str", "OK")}) =>
                  probe.result[1] = "False"

\* C23, amended: send returns True exactly when a reply arrived and it is
\* "OK", surrounding whitespace aside; on a timeout it returns None and the
\* client exits with status 1, as it does on any other reply, for which
\* send returns False; the client exits with status 0 only on True.
C23_SendResult ==
    probe.call = "send" =>
        LET reply == probe.args[3]
            reached == probe.args[1] /\ probe.args[2] = "sent"
            isOK == reply \in {Val("str", "OK"), Val("str", "OK\n"), Val("str", " OK ")}
        IN /\ probe.result[1] = "True" <=> (reached /\ isOK)
           /\ (reached /\ reply = ABSENT) =>
                  (probe.result[1] = "None" /\ probe.result[2] = 1)
           /\ (reached /\ reply # ABSENT /\ ~isOK) =>
                  (probe.result[1] = "False" /\ probe.result[2] = 1)
           /\ probe.result[2] = 0 <=> probe.result[1] = "True"

\* the daemon answered AUTHFAIL and send returned False
C23_Witness ==
    /\ probe.call = "send"
    /\ probe.args = <<TRUE, "sent", Val("str", "AUTHFAIL")>>
    /\ probe.result = <<"False", 1>>

\* this step is the worker consuming a signal
GetStep == queue' < queue

\* this step is the worker listing the pending rowids
ListStep == w_pc = "list" /\ w_pc' # w_pc

\* this step is the worker's, leaving line 219 for a rowid (the record is
\* loaded and the transfer method called), or leaving line 237 after a
\* delivery
IterationStep == w_pc = "loop" /\ <<w_pc, w_i>>' # <<w_pc, w_i>>
MarkStep == w_pc = "mark" /\ <<w_pc, w_i>>' # <<w_pc, w_i>>

\* the for loop goes on: to the next rowid of the snapshot, and out of the
\* loop only after the last
GoesOn ==
    IF w_i < Len(pendientes)
    THEN w_pc' = "loop" /\ w_i' = w_i + 1
    ELSE w_pc' \notin {"loop", "mark"}

\* rowid r is in the snapshot p
InSnapshot(p, r) == \E k \in 1..Len(p) : p[k] = r

\* C24: while storage works, the step that consumes a signal leads to one
\* listing of the pending rowids, which takes as snapshot exactly the
\* rowids with sent = false at that step, in ascending order; each
\* iteration invokes the transfer method for the rowid the loop is at, for
\* the first time in the cycle, and for no other; it goes to transfer_ok
\* for that rowid exactly when the invocation returned True, and else, as
\* after transfer_ok, to the next rowid of the snapshot, leaving the loop
\* only after the last; and a row is marked sent in exactly the
\* transfer_ok step for it.
C24_SnapshotVisitedOnce ==
    [][ faults' = 0 =>
          /\ GetStep => (w_pc = "get" /\ w_pc' = "list")
          /\ w_pc' = "list" => (GetStep \/ w_pc = "list")
          /\ ListStep =>
                /\ \A r \in Rows : InSnapshot(pendientes', r) <=> ~transfers[r].sent
                /\ \A j, k \in 1..Len(pendientes') :
                      j < k => pendientes'[j] < pendientes'[k]
          /\ IterationStep =>
                /\ hist'[pendientes[w_i]].cn = 1
                /\ \A r \in Rows : Invoked(r) <=> r = pendientes[w_i]
                /\ IF hist'[pendientes[w_i]].trues > hist[pendientes[w_i]].trues
                   THEN w_pc' = "mark" /\ w_i' = w_i
                   ELSE GoesOn
          /\ MarkStep => GoesOn
          /\ \A r \in Rows : Flips(r) <=> (MarkStep /\ r = pendientes[w_i])
          /\ pendientes' # pendientes => ListStep
      ]_vars

\* C25: every row of the table comes to be in a snapshot of the worker (a
\* snapshot that holds it was taken after its INSERT) unless it is marked
\* sent already, as long as the daemon runs, when storage works and the
\* threads are scheduled fairly.
C25_NoLostWakeup ==
    \A r \in 1..MaxRows :
        []((r \in Rows) => <>(InSnapshot(pendientes, r) \/ Sent(r) \/ ~Running))

(***************************************************************************)
(* The worker draining outstanding signals while no request arrives: the   *)
(* table holds rows of earlier packets, sent or pending, the queue holds   *)
(* the signals put for them, the listener is in its poll, and every        *)
(* delivery the transfer method attempts is accepted.  The pending rowids  *)
(* at the start are kept as the result of a first list_transfers2 call.    *)
(***************************************************************************)
\* number of signals outstanding at the start
MaxSignals == 3

DrainInit ==
    /\ transfer_method \in {"slack", "plugin"}
    /\ auth_token = NoToken
    /\ metrics_server = start_metrics_server(NoPort)
    /\ transfers \in TablesOf(MaxRows)
    /\ status = << >>
    /\ queue \in 1..MaxSignals
    /\ faults = 0
    /\ l_pc = "await"
    /\ msg = NoBody
    /\ hume = NoPacket
    /\ replies = << >>
    /\ rowid = 0
    /\ uncommitted = << >>
    /\ w_pc = "get"
    /\ pendientes = << >>
    /\ w_i = 1
    /\ cycles = FALSE
    /\ hist = [i \in 1..Len(transfers) |-> NoCalls]
    /\ probe = Probe("list_transfers2", <<TRUE>>, list_transfers2(transfers, TRUE, TRUE))

NextDrain ==
    \/ L_PollTimeout
    \/ W_Get
    \/ \E ok \in BOOLEAN : W_List(ok)
    \/ \E gok \in BOOLEAN : W_Dispatch(gok, "content", "200", "true")
    \/ \E mok \in BOOLEAN : W_Mark(mok)

DrainSpec == DrainInit /\ [][NextDrain]_vars

\* the worker has consumed a signal and finished the cycle
AtRest == cycles /\ w_pc = "get"

\* every row is sent, and the transfer method was invoked once for the rows
\* pending at the start and never for the others
DrainedOnce ==
    \A r \in Rows :
        /\ transfers[r].sent
        /\ hist[r].trues = (IF InSnapshot(probe.result, r) THEN 1 ELSE 0)

\* C26: once the first signal is consumed and its cycle done, every row
\* pending at the start is sent after one invocation, and the cycles of the
\* further signals invoke no transfer method and change no row; so does a
\* cycle whose snapshot is empty.
C26_SignalsIdempotent ==
    [][ /\ AtRest => DrainedOnce
        /\ AtRest => (transfers' = transfers /\ \A r \in Rows : ~Invoked(r))
        /\ (ListStep /\ pendientes' = << >>) =>
              (w_pc' = "get" /\ transfers' = transfers /\ \A r \in Rows : ~Invoked(r))
      ]_vars

\* C27: no step changes the status mapping while render_metrics is in its
\* for loop, and no call of render_metrics ends on the mapping having
\* changed under its iterator.
C27_RenderExcludesUpdate ==
    [][ /\ probe.call = "for" => status' = status
        /\ probe'.call # "RuntimeError"
      ]_vars

\* C28: the step in which add_transfer fails for a valid packet (run() is
\* given no rowid) adds no row, and the handling of that packet leaves the
\* status mapping as it was.
C28_StorageErrorLeavesState ==
    [][ /\ (DecideStep /\ is_valid_hume(hume) /\ faults' # faults) =>
              (rowid' = 0 /\ transfers' = transfers /\ status' = status)
        /\ (StatusStep /\ rowid = 0) => status' = status
      ]_vars

(***************************************************************************)
(* Humed.transfer_ok and Humed.process_transfers called on the running     *)
(* daemon.  Nothing in the daemon calls process_transfers; its caller is a  *)
(* thread of its own, beside the listener and the worker, making one call  *)
(* at a time.  The table holds rows of earlier packets, sent or pending.   *)
(* A process_transfers call in progress is kept in probe: where it stands  *)
(* ("for": at line 371 for a rowid; "mark": before transfer_ok, ret being  *)
(* True; "done": left), its snapshot and the index of the rowid it is at   *)
(* while it is under way, and how it ended (True returned, or "raise").    *)
(***************************************************************************)
CallBodies == {JsonBody(Packet("dict", ABSENT, GoodHume))}

CallInit ==
    /\ transfer_method \in Methods
    /\ auth_token = NoToken
    /\ metrics_server = start_metrics_server(NoPort)
    /\ transfers \in TablesOf(MaxRows)
    /\ status = << >>
    /\ queue = 1
    /\ faults = 0
    /\ l_pc = "await"
    /\ msg = NoBody
    /\ hume = NoPacket
    /\ replies = << >>
    /\ rowid = 0
    /\ uncommitted = << >>
    /\ w_pc = "get"
    /\ pendientes = << >>
    /\ w_i = 1
    /\ cycles = FALSE
    /\ hist = [i \in 1..Len(transfers) |-> NoCalls]
    /\ probe = NoProbe

\* a process_transfers call is under way
InCall == probe.call = "process_transfers" /\ probe.args[1] # "done"

\* where a process_transfers call stands with the snapshot p once it is
\* done with the i-th rowid: at the next, or returning True
ForOrReturn(p, i) ==
    IF i < Len(p)
    THEN Probe("process_transfers", <<"for", p, i + 1>>, "")
    ELSE Probe("process_transfers", <<"done", << >>, 0>>, "True")

\* Humed.transfer_ok called on its own for a rowid: whether the table has a
\* row of that rowid, what the call returns, and whether the table has the
\* row with its sent flag true after it
F_Mark(id, ok) ==
    /\ Running
    /\ ~InCall
    /\ StorageOutcome(ok)
    /\ faults' = Charge(ok)
    /\ transfers' = IF ok THEN transfer_ok(transfers, id) ELSE transfers
    /\ probe' = Probe("transfer_ok", <<id, id \in 1..Len(transfers), ok>>,
                      <<transfer_ok_ret(transfers, id, ok),
                        IF id \in 1..Len(transfers') THEN transfers'[id].sent ELSE FALSE>>)
    /\ UNCHANGED <<transfer_method, auth_token, metrics_server, status, queue, listener,
                   worker, hist>>

\* process_transfers, line 366: the pending rowids are listed ([] when the
\* query fails); with none the for loop is skipped and True returned
P_List(lok) ==
    /\ Running
    /\ ~InCall
    /\ StorageOutcome(lok)
    /\ faults' = Charge(lok)
    /\ probe' = ForOrReturn(list_transfers2(transfers, TRUE, lok), 0)
    /\ UNCHANGED <<transfer_method, auth_token, metrics_server, transfers, status, queue,
                   listener, worker, hist>>

\* lines 371-380, an iteration up to `if ret is True`: the record is loaded
\* (a failed query leaves rows unbound and the method raises) and the chain
\* is gone through; an exception leaves process_transfers, and so does the
\* test of line 380 when no branch has assigned ret; when ret is True the
\* call stands before transfer_ok, else the loop goes on
P_Send(gok, tpl, http) ==
    /\ Running
    /\ InCall
    /\ probe.args[1] = "for"
    /\ transfer_method # "slack" => (tpl = "content" /\ http = "200")
    /\ StorageOutcome(gok)
    /\ faults' = Charge(gok)
    /\ LET p == probe.args[2]
           i == probe.args[3]
           raised == Probe("process_transfers", <<"done", << >>, 0>>, "raise")
       IN IF ~gok
          THEN probe' = raised
          ELSE LET humepkt == get_humepkt_from_transfers(transfers, p[i])
                   ret == process_transfers_chain(transfer_method, humepkt, p[i], tpl, http)
               IN probe' = IF ret \in {"raise", "unbound"} THEN raised
                           ELSE IF ret = "true"
                           THEN Probe("process_transfers", <<"mark", p, i>>, "")
                           ELSE ForOrReturn(p, i)
    /\ UNCHANGED <<transfer_method, auth_token, metrics_server, transfers, status, queue,
                   listener, worker, hist>>

\* lines 380-381 after a delivery: transfer_ok marks the row, its result
\* unused, and the loop goes on
P_Mark(mok) ==
    /\ Running
    /\ InCall
    /\ probe.args[1] = "mark"
    /\ StorageOutcome(mok)
    /\ faults' = Charge(mok)
    /\ LET p == probe.args[2]
           i == probe.args[3]
       IN /\ transfers' = IF mok THEN transfer_ok(transfers, p[i]) ELSE transfers
          /\ probe' = ForOrReturn(p, i)
    /\ UNCHANGED <<transfer_method, auth_token, metrics_server, status, queue, listener,
                   worker, hist>>

NextCall ==
    \/ \E id \in 1..(MaxRows + 1), ok \in BOOLEAN : F_Mark(id, ok)
    \/ \E lok \in BOOLEAN : P_List(lok)
    \/ \E gok \in BOOLEAN, tpl \in Templates, http \in HttpOutcomes : P_Send(gok, tpl, http)
    \/ \E mok \in BOOLEAN : P_Mark(mok)
    \/ L_PollTimeout
    \/ \E body \in CallBodies : L_Recv(body)
    \/ L_Enqueue("ok")
    \/ L_UpdateStatus
    \/ L_Signal
    \/ W_Get
    \/ W_List(TRUE)
    \/ W_Dispatch(TRUE, "content", "200", "true")
    \/ W_Mark(TRUE)

CallSpec == CallInit /\ [][NextCall]_vars

\* C29: transfer_ok returns False when the table has no row of the given
\* rowid or the store is unavailable, and returns True only when the row of
\* that rowid is in the table with its sent flag true.
C29_MarkSentReports ==
    probe.call = "transfer_ok" =>
        LET known == probe.args[2]
            ok == probe.args[3]
            ret == probe.result[1]
            marked == probe.result[2]
        IN /\ (~known \/ ~ok) => ret = "False"
           /\ ret = "True" => marked

\* C30: a row whose payload does not decode is passed over by the worker:
\* no invocation for it has raised, and it stays pending.
C30_CorruptSkipped ==
    \A r \in Rows :
        ~json_loads_ok(transfers[r].hume) =>
            /\ hist[r].ret # "raise"
            /\ ~transfers[r].sent

\* C31: the record loaded for a stored packet that was sent without tags
\* and extra has extra = {} and tags = [], and slack(), given a template and
\* an HTTP response, returns True or False for it.
C31_AbsentFieldsEmpty ==
    (/\ probe.call = "slack"
     /\ probe.args[1] = "bare"
     /\ probe.args[2] = "content"
     /\ probe.args[3] \in {"200", "500"}) =>
        LET rec == Stored("bare").hume.hume IN
        /\ rec.extra = Val("dict", "{}")
        /\ rec.tags = Val("list", "[]")
        /\ probe.result \in {"true", "false"}

(***************************************************************************)
(* The daemon from the middle of Humed.__init__: the worker thread is      *)
(* started (line 161) and blocks in queue.get, start_metrics_server (162)  *)
(* has found no port, the table of a previous run holds rows sent or       *)
(* pending and prepare_db (line 202) is still to run.                      *)
(* The pending rowids of that table are kept as the result of a first      *)
(* list_transfers2 call.                                                   *)
(***************************************************************************)
StartInit ==
    /\ transfer_method \in Methods
    /\ auth_token \in AuthTokens
    /\ metrics_server = start_metrics_server(NoPort)
    /\ transfers \in TablesOf(MaxRows)
    /\ status = << >>
    /\ queue = 0
    /\ faults = 0
    /\ l_pc = "init"
    /\ msg = NoBody
    /\ hume = NoPacket
    /\ replies = << >>
    /\ rowid = 0
    /\ uncommitted = << >>
    /\ w_pc = "get"
    /\ pendientes = << >>
    /\ w_i = 1
    /\ cycles = FALSE
    /\ hist = [i \in 1..Len(transfers) |-> NoCalls]
    /\ probe = Probe("list_transfers2", <<TRUE>>, list_transfers2(transfers, TRUE, TRUE))

\* lines 202-203: prepare_db runs CREATE TABLE IF NOT EXISTS, which keeps
\* the rows of the table; when it fails the process exits
L_PrepareDb(ok) ==
    /\ l_pc = "init"
    /\ StorageOutcome(ok)
    /\ faults' = Charge(ok)
    /\ l_pc' = IF ok THEN "start" ELSE "dead"
    /\ UNCHANGED <<config, transfers, status, queue, msg, hume, replies, rowid, uncommitted,
                   worker, hist>>

NextStart ==
    \/ \E ok \in BOOLEAN : L_PrepareDb(ok)
    \/ Next

StartSpec == StartInit /\ [][NextStart]_vars

\* C32: until run() puts the first signal the worker is in queue.get and
\* has read nothing of the store; the first signal is put after prepare_db
\* and before any request is received; and, storage working, once the
\* worker has consumed a signal, listed the pending rows and left the loop,
\* the transfer method was invoked for every row the previous run left
\* pending.
C32_StartupDrainsPrior ==
    /\ l_pc \in {"init", "start"} => (queue = 0 /\ msg = NoBody /\ ~cycles)
    /\ ~cycles => (w_pc = "get" /\ pendientes = << >>
                   /\ \A r \in Rows : hist[r].ret = "never")
    /\ (faults = 0 /\ cycles /\ w_pc \notin {"list", "loop", "mark"}) =>
           \A r \in Rows : InSnapshot(probe.result, r) => hist[r].ret # "never"

====
